---- MODULE Spec2Model ----
(***************************************************************************)
(* Model of the WordPress operator's reconciliation core                   *)
(* (src/src/charm.py, class WordpressCharm) for one unit of the            *)
(* application, together with the replicated leader store it shares with   *)
(* its peer units.                                                         *)
(*                                                                         *)
(* Python strings are sequences of one-character strings, so that          *)
(* "".rstrip(), str.split(" ") and the hostname pattern are computed and   *)
(* not assumed.  Python's None is the reserved value None below.           *)
(*                                                                         *)
(* The ops framework runs the observers of an emitted event synchronously  *)
(* and in registration order, inside the emitting handler.  The variable   *)
(* stack holds the handlers (and handler continuations) still to run for   *)
(* the external event being handled, next one first; the next external     *)
(* event is dispatched only when it is empty.                              *)
(***************************************************************************)
EXTENDS Integers, Sequences, FiniteSets, TLC

\* ------------------------------------------------------------------ values

None == <<"<None>">>

Truthy(v) == v # None /\ v # <<>>

AllTruthy(vals) == \A i \in DOMAIN vals : Truthy(vals[i])

AnyTruthy(vals) == \E i \in DOMAIN vals : Truthy(vals[i])

\* v or None
OrNone(v) == IF Truthy(v) THEN v ELSE None

Range(f) == {f[i] : i \in DOMAIN f}

\* ------------------------------------------------------------------ bounds

\* Number of values password_generator may be asked for under one key.
MaxGen == 3

\* ------------------------------------------------------------------ strings

Whitespace == {" "}

LowerDigit == {"a", "b", "c", "d", "1"}

Lower == {"a", "b", "c", "d"}

RECURSIVE RStrip(_)
RStrip(s) ==
    IF s = <<>> THEN <<>>
    ELSE IF s[Len(s)] \in Whitespace THEN RStrip(SubSeq(s, 1, Len(s) - 1))
    ELSE s

\* str.split(sep): one field per separator, empty fields kept.
RECURSIVE SplitFrom(_, _, _)
SplitFrom(s, sep, cur) ==
    IF s = <<>> THEN <<cur>>
    ELSE IF Head(s) = sep THEN <<cur>> \o SplitFrom(Tail(s), sep, <<>>)
    ELSE SplitFrom(Tail(s), sep, Append(cur, Head(s)))

juju_setting_to_list(config_string) == SplitFrom(config_string, " ", <<>>)

\* [a-z0-9]+(-[a-z0-9]+)* : non-empty runs of [a-z0-9] joined by single "-".
IsLabel(s) ==
    LET runs == SplitFrom(s, "-", <<>>)
    IN  \A i \in DOMAIN runs :
            /\ runs[i] # <<>>
            /\ \A j \in DOMAIN runs[i] : runs[i][j] \in LowerDigit

\* [a-z]{2,}
IsTld(s) == Len(s) >= 2 /\ \A j \in DOMAIN s : s[j] \in Lower

\* re.match(r"^([a-z0-9]+(-[a-z0-9]+)*\.)+[a-z]{2,}$", h)
MatchesDomainPattern(h) ==
    LET parts == SplitFrom(h, ".", <<>>)
    IN  /\ Len(parts) >= 2
        /\ \A i \in 1..(Len(parts) - 1) : IsLabel(parts[i])
        /\ IsTld(parts[Len(parts)])

\* The value password_generator returns on its n-th call for one key of the
\* leader store: the values of different calls differ.
password_generator(n) == [i \in 1..n |-> "g"]

\* ------------------------------------------------------------------ configuration

DbKeys == <<"db_host", "db_name", "db_user", "db_password">>

WORDPRESS_SECRETS == <<"AUTH_KEY", "AUTH_SALT">>

HostOk == <<"a", "b", ".", "c", "d", " ", "a", "-", "1", ".", "c", "d">>

HostBad == <<"a", "b", ".", "c", "d", " ", "B", ".", "c", "d">>

MkConfig(h, n, u, p, settings, image, hostnames) ==
    [db_host |-> h, db_name |-> n, db_user |-> u, db_password |-> p,
     initial_settings |-> settings, image |-> image,
     additional_hostnames |-> hostnames]

Yaml == <<"y">>

Image == <<"i">>

\* The declared configurations the operator is run with.
Configs ==
    { MkConfig(<<>>, <<>>, <<>>, <<>>, Yaml, Image, <<>>),
      MkConfig(<<"h">>, <<"n">>, <<"u">>, <<"p">>, Yaml, Image, HostOk),
      MkConfig(<<"h">>, <<>>, <<>>, <<>>, Yaml, Image, <<>>),
      MkConfig(<<>>, <<>>, <<>>, <<>>, <<>>, <<" ">>, HostBad) }

\* What the database relation client pushes: the four values, or all four
\* gone on relation tear down.
RelationPayloads ==
    { [host |-> <<"H">>, database |-> <<"N">>, user |-> <<"U">>, password |-> <<"P">>],
      [host |-> None, database |-> None, user |-> None, password |-> None] }

Tags == {"leader", "db", "ingress", "attempted"}


\* ------------------------------------------------------------------ state

VARIABLES
    config,       \* declared configuration (self.model.config)
    leader,       \* self.unit.is_leader()
    state,        \* StoredState
    observing,    \* on_wordpress_uninitialised / on_wordpress_initial_setup registered
    leader_data,  \* replicated leader store (LeadershipSettings)
    gen,          \* calls made to password_generator, by key
    status,       \* self.unit.status
    plan,         \* services of the container's plan
    running,      \* the wordpress service is running
    effects,      \* what the last step did to the workload, the ingress and the
                  \* action, in order
    stack,        \* handlers still to run for the event being handled
    event,        \* the hook being handled: a db relation hook by its name,
                  \* "other" for another hook, "none" between two hooks
    installs      \* wordpress_initial_setup emissions so far

vars == <<config, leader, state, observing, leader_data, gen, status, plan,
          running, effects, stack, event, installs>>

\* Cap of the emission counter.
MaxInstalls == 2

\* container.get_plan() before any layer was added.
NoPlan == [declared |-> FALSE, secrets |-> <<>>, db |-> <<>>]

Unknown == <<"unknown">>

BlockedStatus(message) == <<"blocked">> \o message

MaintenanceStatus(message) == <<"maintenance", message>>

ActiveStatus(message) == <<"active", message>>

\* self.state.set_default(...) on first activation.
StateDefaults(c) ==
    [installed_successfully |-> FALSE,
     install_state |-> {},
     has_db_relation |-> FALSE,
     has_ingress_relation |-> FALSE,
     attempted_install |-> FALSE,
     db_host |-> OrNone(c.db_host),
     db_name |-> OrNone(c.db_name),
     db_user |-> OrNone(c.db_user),
     db_password |-> OrNone(c.db_password)]

NoCalls == [AUTH_KEY |-> 0, AUTH_SALT |-> 0, initial_password |-> 0]

WithinBound(g) == \A k \in DOMAIN g : g[k] <= MaxGen

\* The leader store before any unit wrote to it.
EmptyLeaderData ==
    [AUTH_KEY |-> None, AUTH_SALT |-> None, initial_password |-> None,
     db_host |-> None, db_name |-> None, db_user |-> None, db_password |-> None,
     installed |-> {}]

Init ==
    /\ config \in Configs
    /\ leader \in BOOLEAN
    /\ state = StateDefaults(config)
    /\ observing = TRUE
    /\ leader_data = EmptyLeaderData
    /\ gen = NoCalls
    /\ status = Unknown
    /\ plan = NoPlan
    /\ running = FALSE
    /\ effects = <<>>
    /\ stack = <<>>
    /\ event = "none"
    /\ installs = 0

\* ------------------------------------------------------------------ leader store

\* leader_data.setdefault(key, default) on the boolean key: the stored value
\* when the key is present, else the default, which is then stored.
SetDefaultValue(ld, default) == IF ld.installed = {} THEN default ELSE CHOOSE b \in ld.installed : TRUE

SetDefaultStore(ld, default) == IF ld.installed = {} THEN [ld EXCEPT !.installed = {default}] ELSE ld

\* _wordpress_secrets
WordpressSecrets(ld) == [i \in DOMAIN WORDPRESS_SECRETS |-> ld[WORDPRESS_SECRETS[i]]]

SecretMissingAlways(ld, secret) == TRUE

\* secret not in self.leader_data or not self.leader_data[secret]
SecretMissing(ld, secret) == ~Truthy(ld[secret])

\* _generate_wordpress_secrets, from the i-th secret name on: the store and
\* the generator's call count afterwards.
RECURSIVE GenerateFrom(_, _, _)
GenerateFrom(ld, g, i) ==
    IF i > Len(WORDPRESS_SECRETS) THEN [ld |-> ld, gen |-> g]
    ELSE IF SecretMissing(ld, WORDPRESS_SECRETS[i])
         THEN GenerateFrom([ld EXCEPT ![WORDPRESS_SECRETS[i]] =
                                            password_generator(g[WORDPRESS_SECRETS[i]] + 1)],
                           [g EXCEPT ![WORDPRESS_SECRETS[i]] = @ + 1], i + 1)
         ELSE GenerateFrom(ld, g, i + 1)

GenerateWordpressSecrets(ld, g) == GenerateFrom(ld, g, 1)

GetInitialPasswordAnyUnit(ld, g, isLeader) ==
    IF ~Truthy(ld.initial_password)
    THEN [password |-> password_generator(g.initial_password + 1),
          ld |-> [ld EXCEPT !.initial_password = password_generator(g.initial_password + 1)],
          gen |-> [g EXCEPT !.initial_password = @ + 1]]
    ELSE [password |-> ld.initial_password, ld |-> ld, gen |-> g]

\* _get_initial_password: the password returned, the store and the call count.
GetInitialPassword(ld, g, isLeader) ==
    IF ~Truthy(ld.initial_password) /\ isLeader
    THEN [password |-> password_generator(g.initial_password + 1),
          ld |-> [ld EXCEPT !.initial_password = password_generator(g.initial_password + 1)],
          gen |-> [g EXCEPT !.initial_password = @ + 1]]
    ELSE [password |-> ld.initial_password, ld |-> ld, gen |-> g]

\* ------------------------------------------------------------------ derived values

\* _db_config
DbConfig(st, ld, isLeader) ==
    IF isLeader
    THEN <<st.db_host, st.db_name, st.db_user, st.db_password>>
    ELSE <<ld.db_host, ld.db_name, ld.db_user, ld.db_password>>

\* wordpress_workload["services"]: what of it varies, the environment.
WordpressWorkload(st, ld, isLeader) ==
    [declared |-> TRUE, secrets |-> WordpressSecrets(ld), db |-> DbConfig(st, ld, isLeader)]


\* ------------------------------------------------------------------ validator

\* config[k].rstrip() == ""
IsBlank(c, k) == RStrip(c[k]) = <<>>

\* The additional_hostnames check: TRUE when the setting is empty or every
\* entry matches.
HostnamesValid(c) ==
    \/ ~Truthy(c.additional_hostnames)
    \/ LET hs == juju_setting_to_list(c.additional_hostnames)
       IN  \A i \in DOMAIN hs : MatchesDomainPattern(hs[i])

\* want, after the database check
Want(dbState) ==
    IF AllTruthy(dbState) THEN <<"image">> ELSE <<"image">> \o DbKeys

Missing(c, dbState) == SelectSeq(Want(dbState), LAMBDA k : IsBlank(c, k))

IsValidConfigAlways(c, st, ld, isLeader, status0) == [is_valid |-> TRUE, status |-> status0]

IsValidConfigNoHostnames(c, st, ld, isLeader, status0) ==
    [is_valid |-> /\ st.installed_successfully
                  /\ Truthy(c.initial_settings)
                  /\ AllTruthy(DbConfig(st, ld, isLeader))
                  /\ Missing(c, DbConfig(st, ld, isLeader)) = <<>>,
     status |-> status0]

\* is_valid_config: every check is run in turn; each failing check clears
\* is_valid and some of them set the unit status.
IsValidConfig(c, st, ld, isLeader, status0) ==
    LET v1 == ~(st.installed_successfully = FALSE)
        c2 == Truthy(c.initial_settings)
        v2 == v1 /\ c2
        s2 == IF c2 THEN status0 ELSE BlockedStatus(<<"Missing initial_settings">>)
        dbState == DbConfig(st, ld, isLeader)
        v3 == v2 /\ AllTruthy(dbState)
        missing == Missing(c, dbState)
        v4 == v3 /\ missing = <<>>
        s4 == IF missing = <<>> THEN s2
              ELSE BlockedStatus(<<"Missing required config or relation:">> \o missing)
        c5 == HostnamesValid(c)
        v5 == v4 /\ c5
        s5 == IF c5 THEN s4 ELSE BlockedStatus(<<"Invalid additional hostnames supplied:">>)
    IN  [is_valid |-> v5, status |-> s5]

\* ------------------------------------------------------------------ install gate

first_time_ready == {"leader", "db", "ingress", "leader"}

install_running == {"attempted", "ingress", "db", "leader"}

GateDecisionRetry(install_state) ==
    IF install_state = install_running \/ install_state = first_time_ready
    THEN "begin" ELSE "wait"

GateDecisionNoLock(install_state) ==
    IF first_time_ready \subseteq install_state THEN "begin" ELSE "wait"

\* The if / elif on install_state.
GateDecision(install_state) ==
    IF install_state = install_running THEN "running"
    ELSE IF install_state = first_time_ready THEN "begin"
    ELSE "wait"

\* ------------------------------------------------------------------ dispatch

ReconcileOnlyObservers == <<"on_config_changed">>

\* The observers of config_changed, in registration order.
ConfigChangedObservers ==
    <<"on_config_changed", "on_database_config_changed">>
        \o (IF observing THEN <<"on_wordpress_uninitialised">> ELSE <<>>)

Idle == stack = <<>>

Running(handler) == stack # <<>> /\ Head(stack) = handler

Bump(n) == IF n < MaxInstalls THEN n + 1 ELSE n

\* The event whose handling goes on with the handlers rest, "none" once they
\* are all run.
Handling(rest) == IF rest = <<>> THEN "none" ELSE event


\* ------------------------------------------------------------------ reconciliation

ReconcileEffectsAlwaysStop(services, desired, isRunning) ==
    (IF services # desired
     THEN <<"add_layer", "stop", "push", "autostart">>
     ELSE <<>>)
        \o <<"active", "ingress_update">>

\* The workload part of on_config_changed once the configuration is valid:
\* the operations made, in order.
ReconcileEffects(services, desired, isRunning) ==
    (IF services # desired
     THEN <<"add_layer">> \o (IF isRunning THEN <<"stop">> ELSE <<>>)
              \o <<"push", "autostart">>
     ELSE <<>>)
        \o <<"active", "ingress_update">>

\* on_config_changed, observer of config_changed and wordpress_pebble_ready.
on_config_changed ==
    /\ Running("on_config_changed")
    /\ LET v == IsValidConfig(config, state, leader_data, leader, status)
           desired == WordpressWorkload(state, leader_data, leader)
       IN  IF ~v.is_valid
           THEN /\ status' = v.status
                /\ effects' = <<>>
                /\ UNCHANGED <<plan, running>>
           ELSE /\ status' = ActiveStatus("WordPress service is live!")
                /\ effects' = ReconcileEffects(plan, desired, running)
                /\ plan' = desired
                /\ running' = (IF plan # desired THEN TRUE ELSE running)
    /\ stack' = Tail(stack)
    /\ event' = Handling(stack')
    /\ UNCHANGED <<config, leader, state, observing, leader_data, gen, installs>>

\* ------------------------------------------------------------------ credentials

\* db_config = {k: v or None ...}
StaticDbConfig(c) == [i \in DOMAIN DbKeys |-> OrNone(c[DbKeys[i]])]

\* current_db_data.difference(new_db_data): the stored values against a set
\* whose one element is the dict view itself.
DbDifferences(st, c) ==
    {<<"value", v>> : v \in {st.db_host, st.db_name, st.db_user, st.db_password}}
        \ {<<"dict_values", StaticDbConfig(c)>>}

\* on_database_config_changed emits wordpress_static_database_changed
StaticDatabaseChanged(st, c) ==
    /\ st.has_db_relation = FALSE
    /\ AnyTruthy(StaticDbConfig(c))
    /\ DbDifferences(st, c) # {}

on_database_config_changed ==
    /\ Running("on_database_config_changed")
    /\ stack' = (IF StaticDatabaseChanged(state, config)
                 THEN <<"on_database_changed">> ELSE <<>>) \o Tail(stack)
    /\ event' = Handling(stack')
    /\ effects' = <<>>
    /\ UNCHANGED <<config, leader, state, observing, leader_data, gen, status, plan,
                   running, installs>>

\* The event WordpressStaticDatabaseChanged carries: the declared settings.
StaticPayload(c) ==
    [host |-> c.db_host, database |-> c.db_name, user |-> c.db_user,
     password |-> c.db_password]

NullCredentials(st, hasRelation) ==
    [st EXCEPT !.db_host = None, !.db_name = None, !.db_user = None,
               !.db_password = None, !.has_db_relation = hasRelation]

ForgetDbTag(st, hasRelation) ==
    [NullCredentials(st, hasRelation) EXCEPT
        !.install_state = IF hasRelation THEN @ ELSE @ \ {"db"}]

KeepCredentials(st, hasRelation) == [st EXCEPT !.has_db_relation = hasRelation]

\* on_db_relation_created / on_db_relation_broken, up to the emit.
SwitchCredentialSource(st, hasRelation) == NullCredentials(st, hasRelation)

WriteLeaderDbAlways(ld, ev, isLeader) ==
    [ld EXCEPT !.db_host = ev.host, !.db_name = ev.database,
               !.db_user = ev.user, !.db_password = ev.password]

\* on_database_changed: if self.unit.is_leader(): self.leader_data[...] = ...
WriteLeaderDb(ld, ev, isLeader) ==
    IF isLeader
    THEN [ld EXCEPT !.db_host = ev.host, !.db_name = ev.database,
                    !.db_user = ev.user, !.db_password = ev.password]
    ELSE ld

StoreCredentialsOnly(st, ev) ==
    [st EXCEPT !.db_host = ev.host, !.db_name = ev.database, !.db_user = ev.user,
               !.db_password = ev.password, !.install_state = @ \cup {"db"}]

\* on_database_changed: the StoredState afterwards.
StoreCredentials(st, ev) ==
    [st EXCEPT !.db_host = ev.host, !.db_name = ev.database, !.db_user = ev.user,
               !.db_password = ev.password, !.has_db_relation = TRUE,
               !.install_state = @ \cup {"db"}]

\* on_database_changed up to the emit, for the event ev.
DatabaseChanged(ev) ==
    /\ state' = StoreCredentials(state, ev)
    /\ leader_data' = WriteLeaderDb(leader_data, ev, leader)
    /\ effects' = <<>>
    /\ UNCHANGED <<config, leader, observing, gen, status, plan, running, installs>>

\* on_database_changed, observer of wordpress_static_database_changed
on_static_database_changed ==
    /\ Running("on_database_changed")
    /\ DatabaseChanged(StaticPayload(config))
    /\ stack' = ConfigChangedObservers \o Tail(stack)
    /\ UNCHANGED event

\* on_database_changed, observer of db.on.database_changed
on_database_changed ==
    /\ Idle
    /\ \E ev \in RelationPayloads : DatabaseChanged(ev)
    /\ event' = "other"
    /\ stack' = ConfigChangedObservers

on_db_relation_created ==
    /\ Idle
    /\ state' = SwitchCredentialSource(state, TRUE)
    /\ event' = "db_relation_created"
    /\ stack' = ConfigChangedObservers
    /\ effects' = <<>>
    /\ UNCHANGED <<config, leader, observing, leader_data, gen, status, plan, running,
                   installs>>

on_db_relation_broken ==
    /\ Idle
    /\ state' = SwitchCredentialSource(state, FALSE)
    /\ event' = "db_relation_broken"
    /\ stack' = ConfigChangedObservers
    /\ effects' = <<>>
    /\ UNCHANGED <<config, leader, observing, leader_data, gen, status, plan, running,
                   installs>>

\* on_ingress_relation_changed, observer of ingress_relation_changed and
\* ingress_relation_created
on_ingress_relation_changed ==
    /\ Idle
    /\ state' = [state EXCEPT !.has_ingress_relation = TRUE,
                              !.install_state = @ \cup {"ingress"}]
    /\ event' = "other"
    /\ stack' = ConfigChangedObservers
    /\ effects' = <<>>
    /\ UNCHANGED <<config, leader, observing, leader_data, gen, status, plan, running,
                   installs>>


\* ------------------------------------------------------------------ leadership

\* on_leader_elected, the leader's branch: secrets are generated when one is
\* missing.
EnsureSecrets(ld, g) ==
    IF ~AllTruthy(WordpressSecrets(ld))
    THEN GenerateWordpressSecrets(ld, g)
    ELSE [ld |-> ld, gen |-> g]

on_leader_elected ==
    /\ Idle
    /\ IF leader
       THEN /\ leader_data' = EnsureSecrets(leader_data, gen).ld
            /\ gen' = EnsureSecrets(leader_data, gen).gen
            /\ state' = [state EXCEPT !.install_state = @ \cup {"leader"}]
       ELSE UNCHANGED <<leader_data, gen, state>>
    /\ WithinBound(gen')
    /\ event' = "other"
    /\ stack' = ConfigChangedObservers
    /\ effects' = <<>>
    /\ UNCHANGED <<config, leader, observing, status, plan, running, installs>>

\* ------------------------------------------------------------------ first install

AdoptNothing(st, ld, isLeader) == st

\* on_wordpress_uninitialised: a unit that is not the leader takes the flag
\* from the leader store.
AdoptInstalled(st, ld, isLeader) ==
    IF isLeader = FALSE
    THEN [st EXCEPT !.installed_successfully = SetDefaultValue(ld, FALSE)]
    ELSE st

MarkNothing(st) == st

\* self.state.attempted_install = True; self.state.install_state.add("attempted")
MarkAttempted(st) ==
    [st EXCEPT !.attempted_install = TRUE, !.install_state = @ \cup {"attempted"}]

\* on_wordpress_uninitialised, observer of config_changed while the unit is
\* not installed.
on_wordpress_uninitialised ==
    /\ Running("on_wordpress_uninitialised")
    /\ leader_data' = (IF leader = FALSE THEN SetDefaultStore(leader_data, FALSE)
                       ELSE leader_data)
    /\ LET st == AdoptInstalled(state, leader_data, leader)
           begin == /\ st.installed_successfully # TRUE
                    /\ GateDecision(st.install_state) = "begin"
       IN  /\ state' = (IF begin THEN MarkAttempted(st) ELSE st)
           /\ stack' = (IF begin THEN <<"on_wordpress_initial_setup">> ELSE <<>>)
                           \o Tail(stack)
           /\ installs' = (IF begin THEN Bump(installs) ELSE installs)
    /\ event' = Handling(stack')
    /\ effects' = <<>>
    /\ UNCHANGED <<config, leader, observing, gen, status, plan, running>>

\* on_wordpress_initial_setup, up to and including its first
\* self.on.config_changed.emit()
on_wordpress_initial_setup ==
    /\ Running("on_wordpress_initial_setup")
    /\ plan' = WordpressWorkload(state, leader_data, leader)
    /\ running' = TRUE
    /\ effects' = <<"push", "add_layer", "ingress_update", "start_services">>
    /\ stack' = ConfigChangedObservers \o <<"first_install">> \o Tail(stack)
    /\ UNCHANGED <<config, leader, state, observing, leader_data, gen, status, event,
                   installs>>

MarkInstalledNowhere(ld) == ld

\* self.leader_data["installed"] = True
MarkInstalled(ld) == [ld EXCEPT !.installed = {TRUE}]

\* on_wordpress_initial_setup from "Generating WordPress secrets..." on;
\* first_install answers ok.
first_install ==
    /\ Running("first_install")
    /\ LET got == GetInitialPassword(leader_data, gen, leader)
       IN  /\ WithinBound(got.gen)
           /\ gen' = got.gen
           /\ \E ok \in BOOLEAN :
                /\ state' = [state EXCEPT !.installed_successfully = ok]
                /\ IF ok
                   THEN /\ status' = MaintenanceStatus("WordPress Initialised")
                        /\ leader_data' = MarkInstalled(got.ld)
                        /\ stack' = ConfigChangedObservers \o Tail(stack)
                   ELSE /\ leader_data' = got.ld
                        /\ stack' = Tail(stack)
                        /\ UNCHANGED status
    /\ event' = Handling(stack')
    /\ effects' = <<"first_install">>
    /\ UNCHANGED <<config, leader, observing, plan, running, installs>>

\* _on_get_initial_password_action
get_initial_password_action ==
    /\ Idle
    /\ LET got == GetInitialPassword(leader_data, gen, leader)
       IN  /\ WithinBound(got.gen)
           /\ gen' = got.gen
           /\ leader_data' = got.ld
           /\ effects' = (IF Truthy(got.password)
                          THEN <<"set_results", got.password>>
                          ELSE <<"fail", "Initial password has not been set yet.">>)
    /\ UNCHANGED <<config, leader, state, observing, status, plan, running, stack,
                   event, installs>>

\* ------------------------------------------------------------------ other events

\* The config-changed hook.
config_changed ==
    /\ Idle
    /\ event' = "other"
    /\ stack' = ConfigChangedObservers
    /\ effects' = <<>>
    /\ UNCHANGED <<config, leader, state, observing, leader_data, gen, status, plan,
                   running, installs>>

\* The wordpress-pebble-ready hook.
wordpress_pebble_ready ==
    /\ Idle
    /\ event' = "other"
    /\ stack' = <<"on_config_changed">>
    /\ effects' = <<>>
    /\ UNCHANGED <<config, leader, state, observing, leader_data, gen, status, plan,
                   running, installs>>

\* A new process for the next hook: __init__ registers the install observers
\* only while installed_successfully is False.
Restart ==
    /\ Idle
    /\ observing' = (state.installed_successfully = FALSE)
    /\ observing' # observing
    /\ effects' = <<>>
    /\ UNCHANGED <<config, leader, state, leader_data, gen, status, plan, running, stack, event, installs>>

\* ------------------------------------------------------------------ environment

\* The hook tools answer from what the hook saw when it started (is_leader is
\* cached for the lease time), so the unit sees a change of its environment
\* between two hooks, or across the blocking waits of the first install.
Settled == Idle \/ \E i \in DOMAIN stack : stack[i] = "first_install"

\* The operator changes the declared configuration between two hooks.
SetConfig ==
    /\ Idle
    /\ \E c \in Configs \ {config} : config' = c
    /\ effects' = <<>>
    /\ UNCHANGED <<leader, state, observing, leader_data, gen, status, plan, running, stack, event, installs>>

\* Leadership moves to or away from this unit.
LeadershipChange ==
    /\ Settled
    /\ leader' = ~leader
    /\ effects' = <<>>
    /\ UNCHANGED <<config, state, observing, leader_data, gen, status, plan, running, stack, event, installs>>

\* A peer unit that is the leader runs on_leader_elected.
PeerLeaderElected ==
    /\ Settled
    /\ ~leader
    /\ ~AllTruthy(WordpressSecrets(leader_data))
    /\ leader_data' = EnsureSecrets(leader_data, gen).ld
    /\ gen' = EnsureSecrets(leader_data, gen).gen
    /\ WithinBound(gen')
    /\ effects' = <<>>
    /\ UNCHANGED <<config, leader, state, observing, status, plan, running,
                   stack, event, installs>>

\* A peer unit that is the leader runs on_database_changed.
PeerDatabaseChanged ==
    /\ Settled
    /\ ~leader
    /\ \E ev \in RelationPayloads
                    \cup (IF AnyTruthy(StaticDbConfig(config))
                         THEN {StaticPayload(config)} ELSE {}) :
            leader_data' = WriteLeaderDb(leader_data, ev, TRUE)
    /\ leader_data' # leader_data
    /\ effects' = <<>>
    /\ UNCHANGED <<config, leader, state, observing, gen, status, plan, running, stack, event, installs>>

\* A peer unit that is the leader finishes its first install; it was gated
\* into it by on_leader_elected, which left the secrets in the store.
PeerInstalled ==
    /\ Settled
    /\ ~leader
    /\ AllTruthy(WordpressSecrets(leader_data))
    /\ LET got == GetInitialPassword(leader_data, gen, TRUE)
       IN  /\ WithinBound(got.gen)
           /\ gen' = got.gen
           /\ leader_data' = [got.ld EXCEPT !.installed = {TRUE}]
    /\ leader_data' # leader_data
    /\ effects' = <<>>
    /\ UNCHANGED <<config, leader, state, observing, status, plan, running,
                   stack, event, installs>>

Next ==
    \/ config_changed
    \/ wordpress_pebble_ready
    \/ on_config_changed
    \/ on_database_config_changed
    \/ on_static_database_changed
    \/ on_database_changed
    \/ on_db_relation_created
    \/ on_db_relation_broken
    \/ on_ingress_relation_changed
    \/ on_leader_elected
    \/ on_wordpress_uninitialised
    \/ on_wordpress_initial_setup
    \/ first_install
    \/ get_initial_password_action
    \/ Restart
    \/ SetConfig
    \/ LeadershipChange
    \/ PeerLeaderElected
    \/ PeerDatabaseChanged
    \/ PeerInstalled

Spec == Init /\ [][Next]_vars


\* ------------------------------------------------------------------ properties

Credentials(st) == <<st.db_host, st.db_name, st.db_user, st.db_password>>

AllNull(st) == \A i \in 1..4 : Credentials(st)[i] = None

\* A step of the handler that is next on the stack.
Ran(handler) == Running(handler) /\ stack' # stack

\* The step emitted wordpress_initial_setup.
BeginsInstall == stack' = <<"on_wordpress_initial_setup">> \o Tail(stack)

\* A step made by this unit's handlers.
UnitStep ==
    \/ on_config_changed
    \/ on_database_config_changed
    \/ on_static_database_changed
    \/ on_database_changed
    \/ on_db_relation_created
    \/ on_db_relation_broken
    \/ on_ingress_relation_changed
    \/ on_leader_elected
    \/ on_wordpress_uninitialised
    \/ on_wordpress_initial_setup
    \/ first_install
    \/ get_initial_password_action

\* C1: once installed_successfully is true, no step sets it back to false.
C1_InstalledMonotonic ==
    [][state.installed_successfully = TRUE => state'.installed_successfully = TRUE]_vars

\* C2: when the gate runs and finds the unit not installed (for a unit that
\* is not the leader: after it took the flag from the leader store), it emits
\* wordpress_initial_setup and adds "attempted" if and only if install_state
\* is exactly {"leader", "db", "ingress"}; otherwise install_state is left as
\* it was.
C2_GateExact ==
    [][(Ran("on_wordpress_uninitialised") /\ state'.installed_successfully = FALSE)
        => /\ BeginsInstall <=> state.install_state = {"leader", "db", "ingress"}
           /\ BeginsInstall => state'.install_state = state.install_state \cup {"attempted"}
           /\ ~BeginsInstall => /\ state'.install_state = state.install_state
                                /\ stack' = Tail(stack)]_vars

\* C2 witness: the gate has just begun the install from the ready set.
C2_Witness ==
    /\ Running("on_wordpress_initial_setup")
    /\ state.install_state = {"attempted", "ingress", "db", "leader"}
    /\ state.installed_successfully = FALSE

\* C3: the unit emits wordpress_initial_setup at most once, restarts included.
C3_AtMostOneInstall == installs <= 1

\* C3 witness: the gate is evaluated again, in a later hook, after an install
\* was begun and its bootstrap failed.
C3_Witness ==
    /\ installs = 1
    /\ Running("on_wordpress_uninitialised")
    /\ state.install_state = install_running
    /\ state.installed_successfully = FALSE
    /\ ~("first_install" \in Range(stack))

\* C4: the four stored credentials are all None or none of them is.
C4_CredentialAtomicity ==
    \/ AllNull(state)
    \/ \A i \in 1..4 : Credentials(state)[i] # None

\* C5: a step of this unit made while it is not the leader leaves the leader
\* store as it was.
C5_SingleWriter ==
    [][(UnitStep /\ ~leader) => leader_data' = leader_data]_vars


\* The secrets and the initial password held by the leader store.
SecretKeys == Range(WORDPRESS_SECRETS) \cup {"initial_password"}

\* C6: a secret or initial password that is set in the leader store keeps its
\* value in every step, and _generate_wordpress_secrets run a second time
\* returns the store and the values of its first run.
C6_SecretsImmutable ==
    /\ [][\A k \in SecretKeys :
            Truthy(leader_data[k]) => leader_data'[k] = leader_data[k]]_vars
    /\ [](LET once == GenerateWordpressSecrets(leader_data, gen)
              twice == GenerateWordpressSecrets(once.ld, once.gen)
          IN  /\ twice.ld = once.ld
              /\ AllTruthy(WordpressSecrets(once.ld)))

\* C6 witness: the leader generated the secrets and the password, and the
\* action has just returned the stored password.
C6_Witness ==
    /\ leader
    /\ "leader" \in state.install_state
    /\ AllTruthy(WordpressSecrets(leader_data))
    /\ gen.initial_password = 1
    /\ effects = <<"set_results", leader_data.initial_password>>

\* The last handler of the hook named by event returns.
Completes(name) == event = name /\ stack # <<>> /\ stack' = <<>>

\* C7 as claimed: after db-relation-created the credentials are None and
\* has_db_relation is true; after db-relation-broken the credentials are None
\* and has_db_relation is false.
C7_RelationResetsCredentials ==
    [][/\ Completes("db_relation_created")
            => AllNull(state') /\ state'.has_db_relation = TRUE
       /\ Completes("db_relation_broken")
            => AllNull(state') /\ state'.has_db_relation = FALSE]_vars

\* C7 as amended: after db-relation-created the credentials are None and
\* has_db_relation is true; after db-relation-broken, with no static db_*
\* setting declared, the credentials are None and has_db_relation is false,
\* and with a static db_* setting declared the credentials are the four
\* declared settings and has_db_relation is true.
C7_RelationSwitchesSource ==
    [][/\ Completes("db_relation_created")
            => AllNull(state') /\ state'.has_db_relation = TRUE
       /\ (Completes("db_relation_broken") /\ ~AnyTruthy(StaticDbConfig(config)))
            => AllNull(state') /\ state'.has_db_relation = FALSE
       /\ (Completes("db_relation_broken") /\ AnyTruthy(StaticDbConfig(config)))
            => /\ Credentials(state') = <<config.db_host, config.db_name,
                                          config.db_user, config.db_password>>
               /\ state'.has_db_relation = TRUE]_vars

\* C7 witness: db-relation-created is about to complete under a declared
\* static configuration, whose values the unit had stored before.
C7_Witness ==
    /\ event = "db_relation_created"
    /\ Len(stack) = 1
    /\ AllTruthy(StaticDbConfig(config))
    /\ AllNull(state)
    /\ state.has_db_relation
    /\ plan.db = <<config.db_host, config.db_name, config.db_user, config.db_password>>

\* C8: on_database_config_changed raises wordpress_static_database_changed
\* exactly when has_db_relation is false and the declared db_* settings differ
\* from the stored credentials, and changes nothing of the StoredState.
C8_StaticConfigDiff ==
    [][Ran("on_database_config_changed")
        => /\ (stack' = <<"on_database_changed">> \o Tail(stack))
                <=> /\ state.has_db_relation = FALSE
                    /\ Credentials(state) # StaticDbConfig(config)
           /\ state' = state]_vars

PayloadValues(ev) == <<ev.host, ev.database, ev.user, ev.password>>

\* What C9 asks of a step that handles the database-changed event ev.
Pushed(ev) ==
    /\ Credentials(state') = PayloadValues(ev)
    /\ state'.has_db_relation = TRUE
    /\ state'.install_state = state.install_state \cup {"db"}
    /\ leader => /\ Credentials(leader_data') = PayloadValues(ev)
                 /\ \A k \in SecretKeys \cup {"installed"} :
                        leader_data'[k] = leader_data[k]
    /\ ~leader => leader_data' = leader_data

\* C9: on_database_changed stores the four pushed values, sets
\* has_db_relation and adds "db"; the leader writes the same four values to
\* the leader store, another unit leaves the store as it was.
C9_CredentialsPushed ==
    [][/\ Ran("on_database_changed") => Pushed(StaticPayload(config))
       /\ on_database_changed => \E ev \in RelationPayloads : Pushed(ev)]_vars

\* C9 witness: a unit that is not the leader has stored the relation's
\* values, which the leader store does not hold.
C9_Witness ==
    /\ ~leader
    /\ stack = ConfigChangedObservers
    /\ Credentials(state) = <<<<"H">>, <<"N">>, <<"U">>, <<"P">>>>
    /\ state.has_db_relation
    /\ "db" \in state.install_state
    /\ AllNull(leader_data)

\* ------------------------------------------------------------------ validator alone

\* The declared configurations the validator is run on.
ValidatorConfigs ==
    { MkConfig(db[1], db[2], db[3], db[4], s, i, h) :
        db \in {<<<<>>, <<>>, <<>>, <<>>>>, <<<<"h">>, <<"n">>, <<"u">>, <<"p">>>>,
                <<<<"h">>, <<>>, <<>>, <<>>>>},
        s \in {<<>>, Yaml},
        i \in {<<>>, <<" ">>, Image, <<"i", " ">>},
        h \in {<<>>, HostOk, HostBad, <<"a", "b">>, <<"a", ".", "c", "d", " ">>,
               <<"a", "-", ".", "c", "d">>} }

\* The pushes a unit or the leader store may have taken under configuration c.
PushesUnder(c) == RelationPayloads \cup {StaticPayload(c)}

\* A reconciliation pass is about to run the validator, on a unit and a
\* leader store that hold any of the credentials the handlers can leave.
ValidatorInit ==
    /\ config \in ValidatorConfigs
    /\ leader \in BOOLEAN
    /\ \E installed \in BOOLEAN :
        LET st == [StateDefaults(config) EXCEPT !.installed_successfully = installed]
        IN  state \in {st} \cup {StoreCredentials(st, ev) : ev \in PushesUnder(config)}
    /\ observing = TRUE
    /\ leader_data \in {EmptyLeaderData}
            \cup {WriteLeaderDb(EmptyLeaderData, ev, TRUE) : ev \in PushesUnder(config)}
    /\ gen = NoCalls
    /\ status = Unknown
    /\ plan = NoPlan
    /\ running = FALSE
    /\ effects = <<>>
    /\ stack = <<"on_config_changed">>
    /\ event = "other"
    /\ installs = 0

ValidatorNext == on_config_changed

ValidatorSpec == ValidatorInit /\ [][ValidatorNext]_vars

\* C10: is_valid_config answers true exactly when the unit is installed,
\* initial_settings is set, image is not blank, the four resolved credentials
\* (the unit's own on the leader, the leader store's on another unit) are set
\* and every additional hostname matches; the required-settings check and the
\* hostname check run whatever the earlier checks found; and the pass that
\* asked leaves StoredState and the leader store as they were.
C10_ValidatorResult ==
    /\ [](LET v == IsValidConfig(config, state, leader_data, leader, status)
              hosts == juju_setting_to_list(config.additional_hostnames)
              hostsOk == \/ config.additional_hostnames = <<>>
                         \/ \A i \in DOMAIN hosts : MatchesDomainPattern(hosts[i])
              resolved == IF leader THEN Credentials(state) ELSE Credentials(leader_data)
              dbOk == \A x \in Range(resolved) : x # None /\ x # <<>>
          IN  /\ v.is_valid <=> /\ state.installed_successfully = TRUE
                                /\ config.initial_settings # <<>>
                                /\ RStrip(config.image) # <<>>
                                /\ dbOk
                                /\ hostsOk
              /\ ~hostsOk => v.status = <<"blocked", "Invalid additional hostnames supplied:">>
              /\ (hostsOk /\ RStrip(config.image) = <<>>)
                    => /\ v.status[1] = "blocked"
                       /\ v.status[2] = "Missing required config or relation:"
                       /\ v.status[3] = "image"
              /\ v.is_valid => v.status = status)
    /\ [][Ran("on_config_changed")
            => /\ state' = state
               /\ leader_data' = leader_data]_vars

\* C10 witness: a valid configuration was reconciled on a unit that is not
\* the leader and reads its credentials from the leader store.
C10_Witness ==
    /\ ~leader
    /\ IsValidConfig(config, state, leader_data, leader, status).is_valid
    /\ AllNull(state)
    /\ config.additional_hostnames # <<>>
    /\ effects = <<"add_layer", "push", "autostart", "active", "ingress_update">>

\* ------------------------------------------------------------------ reconciliation passes

\* The credentials the unit resolves: its own on the leader, the leader
\* store's on another unit.
Resolved == IF leader THEN Credentials(state) ELSE Credentials(leader_data)

\* The declared additional hostnames all match the domain pattern.
HostsOk ==
    \/ config.additional_hostnames = <<>>
    \/ LET hosts == juju_setting_to_list(config.additional_hostnames)
       IN  \A i \in DOMAIN hosts : MatchesDomainPattern(hosts[i])

\* What the validator asks of the unit, as the specification lists it.
PassValid ==
    /\ state.installed_successfully = TRUE
    /\ config.initial_settings # <<>>
    /\ RStrip(config.image) # <<>>
    /\ \A x \in Range(Resolved) : x # None /\ x # <<>>
    /\ HostsOk

WorkloadOps == {"add_layer", "stop", "push", "autostart", "start_services"}

\* C11: a reconciliation pass whose validation fails makes no workload
\* operation and no ingress update, leaves the plan and the service as they
\* were and does not set the active status; a pass made while
\* installed_successfully is false is such a pass.
C11_ValidationGates ==
    [][(Ran("on_config_changed") /\ ~PassValid)
        => /\ effects' = <<>>
           /\ plan' = plan
           /\ running' = running
           /\ status' # status => status'[1] = "blocked"
           /\ state.installed_successfully = FALSE
                => \A i \in DOMAIN effects' : effects'[i] \notin WorkloadOps]_vars

\* C11 witness: a pass has just ended on a unit that is not installed, whose
\* configuration is valid otherwise and whose workload has no layer yet.
C11_Witness ==
    /\ Running("on_database_config_changed")
    /\ event = "other"
    /\ state.installed_successfully = FALSE
    /\ config.initial_settings # <<>>
    /\ RStrip(config.image) # <<>>
    /\ \A x \in Range(Resolved) : x # None /\ x # <<>>
    /\ HostsOk
    /\ plan = NoPlan
    /\ effects = <<>>
    /\ status = Unknown

\* The names a blocked status lists after its message.
Reasons(st) == {st[i] : i \in 3..Len(st)}

\* C12: a reconciliation pass whose validation fails ends with a blocked
\* status; with a required setting blank the status lists the names of the
\* blank settings, the four db_* names among them when the unit resolves no
\* credentials and they are all blank.
C12_FailureSurfaced ==
    [][(Ran("on_config_changed") /\ ~PassValid)
        => /\ status'[1] = "blocked"
           /\ (HostsOk /\ ~AllTruthy(Resolved))
                => \A i \in DOMAIN DbKeys :
                        IsBlank(config, DbKeys[i]) => DbKeys[i] \in Reasons(status')]_vars

\* A setting the validator requires is blank.
RequiredBlank ==
    \/ RStrip(config.image) = <<>>
    \/ /\ ~AllTruthy(Resolved)
       /\ \E i \in DOMAIN DbKeys : IsBlank(config, DbKeys[i])

\* C13: when several checks of the validator fail, the status it leaves is
\* the reason of the first of them in the order of the checks:
\* initial_settings, then the required settings, then the hostnames.
C13_FirstBlockingReason ==
    LET v == IsValidConfig(config, state, leader_data, leader, status)
    IN  /\ config.initial_settings = <<>>
            => v.status = BlockedStatus(<<"Missing initial_settings">>)
        /\ (config.initial_settings # <<>> /\ RequiredBlank)
            => /\ v.status[1] = "blocked"
               /\ v.status[2] = "Missing required config or relation:"

\* ------------------------------------------------------------------ bootstrap

\* The unit began its first install and first_install answered failure: the
\* install handler has returned and the unit is not installed.
BootstrapFailed ==
    /\ "attempted" \in state.install_state
    /\ "on_wordpress_initial_setup" \notin Range(stack)
    /\ "first_install" \notin Range(stack)
    /\ state.installed_successfully = FALSE

\* The gate emits wordpress_initial_setup.
GateBegins == Ran("on_wordpress_uninitialised") /\ BeginsInstall

\* The step is first_install answering failure.
FailsBootstrap == Ran("first_install") /\ state'.installed_successfully = FALSE

\* The gate of a unit that is not the leader takes installed = True from the
\* leader store.
AdoptsInstalled ==
    /\ Ran("on_wordpress_uninitialised")
    /\ ~leader
    /\ leader_data.installed = {TRUE}

\* C14 as claimed: after first_install answered failure, installed_successfully
\* stays false, install_state stays {"attempted", "ingress", "db", "leader"},
\* no step begins another install or sets the active status, and the failing
\* step drops no handler that was still to run.
C14_FailurePermanent ==
    [][/\ FailsBootstrap
            => /\ stack' = Tail(stack)
               /\ state'.install_state = install_running
       /\ BootstrapFailed
            => /\ state'.installed_successfully = FALSE
               /\ state'.install_state = install_running
               /\ ~GateBegins
               /\ status'[1] # "active"]_vars

\* C14 as amended: after first_install answered failure, install_state stays
\* {"attempted", "ingress", "db", "leader"} and no step begins another install,
\* ever; installed_successfully stays false and no step sets the active status
\* until the gate of the unit, then not the leader, takes installed = True
\* from the leader store; the failing step drops no handler that was still to
\* run.
C14_FailurePermanentUntilAdopted ==
    [][/\ FailsBootstrap
            => /\ stack' = Tail(stack)
               /\ state'.install_state = install_running
       /\ BootstrapFailed
            => /\ state'.installed_successfully = FALSE \/ AdoptsInstalled
               /\ status'[1] # "active"
       /\ "attempted" \in state.install_state
            => /\ state'.install_state = install_running
               /\ ~GateBegins]_vars

\* C14 witness: the bootstrap failed, the unit lost the leadership, a peer
\* finished its install, and the gate is about to run.
C14_Witness ==
    /\ BootstrapFailed
    /\ Running("on_wordpress_uninitialised")
    /\ ~leader
    /\ leader_data.installed = {TRUE}
    /\ status[1] # "active"

\* first_install has just answered success: the install handler is at its
\* last self.on.config_changed.emit().
JustBootstrapped ==
    /\ effects = <<"first_install">>
    /\ state.installed_successfully = TRUE

\* A handler of the configuration-changed path that only returns: the static
\* configuration check when it has nothing to raise, the gate of an installed
\* unit.
OnlyReturns ==
    \/ Ran("on_database_config_changed") /\ ~StaticDatabaseChanged(state, config)
    \/ Ran("on_wordpress_uninitialised") /\ state.installed_successfully = TRUE

\* C15: when first_install answers success, installed_successfully and the
\* leader store's "installed" are true and the configuration-changed path is
\* run again, with nothing but gates left to run after it; its reconciliation
\* pass is the next step, it runs with installed_successfully true and sets
\* the active status when the configuration is valid; and the handlers that
\* run after that pass in the same event, the static configuration check and
\* the gates, leave the status as it is.
C15_InstallingToActive ==
    /\ [][(Ran("first_install") /\ state'.installed_successfully = TRUE)
            => /\ leader_data'.installed = {TRUE}
               /\ stack' = ConfigChangedObservers \o Tail(stack)
               /\ Range(Tail(stack)) \subseteq {"on_wordpress_uninitialised"}]_vars
    /\ [][JustBootstrapped
            => /\ Ran("on_config_changed")
               /\ PassValid => /\ status' = ActiveStatus("WordPress service is live!")
                               /\ ~StaticDatabaseChanged(state', config)]_vars
    /\ [][(state.installed_successfully = TRUE /\ OnlyReturns)
            => /\ status' = status
               /\ stack' = Tail(stack)
               /\ state' = state]_vars

\* C15 witness: the bootstrap has just succeeded on the leader under a valid
\* configuration, and the reconciliation pass is about to run.
C15_Witness ==
    /\ JustBootstrapped
    /\ PassValid
    /\ leader
    /\ leader_data.installed = {TRUE}
    /\ Running("on_config_changed")
    /\ status = MaintenanceStatus("WordPress Initialised")

\* The services the workload should have, computed from the unit's state.
Desired == WordpressWorkload(state, leader_data, leader)

\* C16: a valid reconciliation pass that finds the plan's services different
\* from the desired ones adds the layer, stops the service if and only if it
\* is running, pushes the setup script and autostarts, in this order, then
\* sets the active status and updates the ingress; one that finds them equal
\* only sets the active status and updates the ingress, and leaves the plan
\* and the service as they were.
C16_ReconcileOrdering ==
    [][(Ran("on_config_changed") /\ PassValid)
        => /\ (plan # Desired /\ running)
                => effects' = <<"add_layer", "stop", "push", "autostart",
                                "active", "ingress_update">>
           /\ (plan # Desired /\ ~running)
                => effects' = <<"add_layer", "push", "autostart",
                                "active", "ingress_update">>
           /\ plan # Desired => plan' = Desired /\ running'
           /\ plan = Desired
                => /\ effects' = <<"active", "ingress_update">>
                   /\ plan' = plan
                   /\ running' = running
           /\ status' = ActiveStatus("WordPress service is live!")]_vars

\* C16 witness: a pass has just replaced the layer of a running service whose
\* credentials changed.
C16_Witness ==
    /\ effects = <<"add_layer", "stop", "push", "autostart", "active", "ingress_update">>
    /\ state.installed_successfully = TRUE
    /\ plan = Desired
    /\ running
    /\ status[1] = "active"

\* ------------------------------------------------------------------ convergence

\* A handler that changes StoredState or the leader store on an external
\* event, or on wordpress_static_database_changed.
MutatingHandler ==
    \/ on_db_relation_created
    \/ on_db_relation_broken
    \/ on_database_changed
    \/ on_static_database_changed
    \/ on_ingress_relation_changed
    \/ on_leader_elected

\* A hook or an action is dispatched to the unit.
ExternalEvent ==
    \/ config_changed
    \/ wordpress_pebble_ready
    \/ on_database_changed
    \/ on_db_relation_created
    \/ on_db_relation_broken
    \/ on_ingress_relation_changed
    \/ on_leader_elected
    \/ get_initial_password_action

\* C17: a handler that changes tracked state leaves, as the next handlers to
\* run on the state it wrote, the reconciliation pass, the static
\* configuration check and, while installed_successfully is false, the
\* install gate; while handlers are left to run, StoredState changes only in
\* a step of the first of them; and an external event is dispatched only
\* when no handler is left to run.
C17_ConvergenceFunnel ==
    /\ [][MutatingHandler
            => /\ Len(stack') >= 2
               /\ stack'[1] = "on_config_changed"
               /\ stack'[2] = "on_database_config_changed"
               /\ state'.installed_successfully = FALSE
                    => /\ Len(stack') >= 3
                       /\ stack'[3] = "on_wordpress_uninitialised"]_vars
    /\ [][(~Idle /\ (state' # state \/ stack' # stack)) => Ran(Head(stack))]_vars
    /\ [][ExternalEvent => Idle]_vars

\* C17 witness: the ingress relation handler has just recorded the relation
\* on a unit that is not installed, and the three handlers of the
\* configuration-changed path are the next to run.
C17_Witness ==
    /\ stack = <<"on_config_changed", "on_database_config_changed",
                 "on_wordpress_uninitialised">>
    /\ state.has_ingress_relation
    /\ state.install_state = {"ingress"}
    /\ state.installed_successfully = FALSE
    /\ event = "other"
    /\ effects = <<>>
    /\ status = Unknown

\* ------------------------------------------------------------------ get-initial-password

PasswordSet == Truthy(leader_data.initial_password)

C19_InstallStateMonotone ==
    [][state.install_state \subseteq state'.install_state]_vars

\* C19 witness: the unit, not installed, has handled db-relation-broken and
\* ingress is related; the tags "db" and "ingress" are still there.
C19_Witness ==
    /\ event = "db_relation_broken"
    /\ Len(stack) = 1
    /\ state.installed_successfully = FALSE
    /\ state.has_db_relation = FALSE
    /\ AllNull(state)
    /\ {"db", "ingress"} \subseteq state.install_state

\* ------------------------------------------------------------------ the application

\* C20: once the leader store's "installed" is true, the gate of no unit emits
\* wordpress_initial_setup.
C20_OneBootstrapPerApplication ==
    [][leader_data.installed = {TRUE} => ~GateBegins]_vars

\* ------------------------------------------------------------------ followers

\* C21: when the gate has run on a unit that is not the leader,
\* installed_successfully is the leader store's "installed", false when the
\* store has no such key; and when the store's "installed" is true the gate
\* emits nothing and leaves install_state as it was.
C21_FollowerAdoptsInstalled ==
    [][(Ran("on_wordpress_uninitialised") /\ ~leader)
        => /\ state'.installed_successfully = (leader_data.installed = {TRUE})
           /\ leader_data.installed = {TRUE}
                => /\ stack' = Tail(stack)
                   /\ state'.install_state = state.install_state
                   /\ installs' = installs]_vars

\* C21 witness: a unit that was the leader and holds the three tags of the
\* ready set took installed = True from the leader store as a follower, and
\* began no install.
C21_Witness ==
    /\ ~leader
    /\ Idle
    /\ state.installed_successfully = TRUE
    /\ state.install_state = first_time_ready
    /\ leader_data.installed = {TRUE}
    /\ installs = 0

\* ------------------------------------------------------------------ workload start

\* The step starts the workload's services.
StartsServices ==
    \/ Ran("on_wordpress_initial_setup")
    \/ /\ Ran("on_config_changed")
       /\ \E i \in DOMAIN effects' : effects'[i] = "autostart"

\* C22: the services are started, by on_wordpress_initial_setup or by a
\* reconciliation pass, only when the four credentials the unit resolves are
\* all set.
C22_NoPrematureStart ==
    [][StartsServices => \A x \in Range(Resolved) : x # None /\ x # <<>>]_vars

\* ------------------------------------------------------------------ end of event

\* The last handler of an event returns.
EventEnds == stack # <<>> /\ stack' = <<>>

\* A reconciliation pass is still to run in the event.
PassLeft == \E i \in DOMAIN stack' : stack'[i] = "on_config_changed"

\* C23: when the handling of an event ends in a state that passes validation,
\* the plan holds the desired services and the status is active; and a
\* handler that runs after the last reconciliation pass of the event leaves
\* installed_successfully and the credentials as they were.
C23_EndOfEventConvergence ==
    [][/\ (EventEnds /\ PassValid')
            => /\ plan' = Desired'
               /\ status'[1] = "active"
       /\ (~Idle /\ stack' # stack /\ ~PassLeft)
            => /\ state'.installed_successfully = state.installed_successfully
               /\ Credentials(state') = Credentials(state)]_vars

\* ------------------------------------------------------------------ termination

\* A handler that an emit left to run takes its step.
HandlerStep ==
    \/ on_config_changed
    \/ on_database_config_changed
    \/ on_static_database_changed
    \/ on_wordpress_uninitialised
    \/ on_wordpress_initial_setup
    \/ first_install

\* Every call a handler makes returns: the handler that is next to run runs.
\* This is WF_vars(HandlerStep), with ENABLED <<HandlerStep>>_vars written as
\* what it amounts to, ~Idle.
HandlersRun == []<>Idle \/ []<><<HandlerStep>>_vars

FairSpec == Init /\ [][Next]_vars /\ HandlersRun

\* The handler that is next to run can take its step: it is one of the
\* handlers of HandlerStep, and password_generator has a value left for
\* first_install.
HandlerReady ==
    /\ Head(stack) \in {"on_config_changed", "on_database_config_changed",
                        "on_database_changed", "on_wordpress_uninitialised",
                        "on_wordpress_initial_setup", "first_install"}
    /\ Head(stack) = "first_install"
            => WithinBound(GetInitialPassword(leader_data, gen, leader).gen)

\* C24: the handlers left to run by the nested emits of one event are never
\* more than five, the one that is next can always take its step, and the
\* handling of every event ends.
C24_HandlingTerminates ==
    /\ [][Len(stack') <= 5]_vars
    /\ [][~Idle' => HandlerReady']_vars
    /\ ~Idle ~> Idle

\* C24 witness: the deepest nesting: the reconciliation pass emitted by
\* on_wordpress_initial_setup, begun by the gate of the config_changed that
\* on_database_changed emitted, inside a first config_changed.
C24_Witness ==
    /\ stack = <<"on_config_changed", "on_database_config_changed",
                 "on_wordpress_uninitialised", "first_install",
                 "on_wordpress_uninitialised">>
    /\ state.has_db_relation
    /\ state.install_state = install_running

====
